---- MODULE Spec2Model ----
(***************************************************************************)
(* A model of the videoml-stdlib DOM runtime (src/unnamed/part_000): the   *)
(* prop decoder, the theme resolver, the render step of the components,    *)
(* the timeline binding of <motion-bars> and the custom element registry.  *)
(*                                                                         *)
(* JavaScript values are tagged tuples.  Numbers are exact rationals       *)
(* <<"num", n, d>> (d > 0, reduced); an IEEE double is the rounding of the *)
(* rational, and x / x = 1 exactly in both.  A string is a sequence of     *)
(* atoms: a literal chunk of text <<"lit", s>> (never a numeral), or the   *)
(* canonical decimal text of a number <<"dec", n, d>> as Number::toString  *)
(* writes it.                                                              *)
(***************************************************************************)
EXTENDS Integers, Sequences, FiniteSets, TLC

VARIABLES
    \* ---- the component instance and the document around it
    kind,         \* which component class the element is an instance of
    attr,         \* the element's props attribute: [present, text]
    children,     \* the element's child nodes (a sequence of DOM trees)
    barNodes,     \* MotionBarsElement.barNodes
    tickHandler,  \* MotionBarsElement.tickHandler: 0 (undefined) or a closure id
    parent,       \* where the element is: "none", "doc" or a presentation root
    rootInDoc,    \* for each presentation root, whether it is in the document
    listeners,    \* for each root, its timeline:tick listeners in registration order
    cssVars,      \* for each scope, the computed value of each design token
    raised,       \* the exception the last operation ended with, or "none"
    gen,          \* the number of render calls so far (names the nodes of a render)
    nextHandler,  \* the number of closures bindTimeline has created
    lastOp,       \* the last operation performed on the element
    renderRun,    \* history: the run of consecutive renders with the same inputs
    \* ---- the prop decoder applied to one input
    raw,          \* the argument of parseProps
    decoded,      \* what parseProps returned
    \* ---- the theme resolver applied to one scope
    themeScope,   \* the argument of resolveTheme: "null" or a root
    theme,        \* what resolveTheme returned
    \* ---- the custom element registry
    registry,     \* customElements: tag name -> implementation ("none": not defined)
    defineCount,  \* history: per tag, the customElements.define calls that succeeded
    lastScan,     \* the tag names of the subtree given to the last fallback scan
    pc            \* the position of the operation under study

elVars == <<kind, attr, children, barNodes, tickHandler, parent, rootInDoc,
            listeners, cssVars, raised, gen, nextHandler, lastOp, renderRun>>
parseVars == <<raw, decoded>>
themeVars == <<themeScope, theme>>
regVars == <<registry, defineCount, lastScan>>
vars == <<elVars, parseVars, themeVars, regVars, pc>>

(***************************************************************************)
(* JavaScript values                                                       *)
(***************************************************************************)
Undef == <<"undef">>
Null == <<"null">>
NaN == <<"nan">>
Bool(b) == <<"bool", b>>

RECURSIVE Gcd(_, _)
Gcd(a, b) == IF b = 0 THEN a ELSE Gcd(b, a % b)

Abs(n) == IF n < 0 THEN -n ELSE n

\* The number n / d, reduced (d # 0).
Num(n, d) ==
    LET s == IF d < 0 THEN -1 ELSE 1
        g == Gcd(Abs(n), Abs(d))
    IN  <<"num", (s * n) \div g, (s * d) \div g>>

IntNum(n) == <<"num", n, 1>>

EmptyString == <<"str", <<>>>>
Lit(s) == IF s = "" THEN EmptyString ELSE <<"str", << <<"lit", s>> >> >>
Arr(elems) == <<"arr", elems>>
Obj(members) == <<"obj", members>>
EmptyBag == Obj(<<>>)

Tag(v) == v[1]
IsNullish(v) == Tag(v) \in {"undef", "null"}

\* a ?? b
Coalesce(a, b) == IF IsNullish(a) THEN b ELSE a

\* ToBoolean
Truthy(v) ==
    CASE Tag(v) \in {"undef", "null", "nan"} -> FALSE
      [] Tag(v) = "bool" -> v[2]
      [] Tag(v) = "num" -> v[2] # 0
      [] Tag(v) = "str" -> v[2] # <<>>
      [] OTHER -> TRUE

\* a || b
OrElse(a, b) == IF Truthy(a) THEN a ELSE b

\* String concatenation; adjacent literal chunks merge, so equal texts built
\* from literals are equal values.
Concat(a, b) ==
    LET x == a[2]
        y == b[2]
    IN  IF x = <<>> THEN b
        ELSE IF y = <<>> THEN a
        ELSE IF x[Len(x)][1] = "lit" /\ y[1][1] = "lit"
             THEN <<"str", SubSeq(x, 1, Len(x) - 1)
                           \o << <<"lit", x[Len(x)][2] \o y[1][2]>> >>
                           \o Tail(y)>>
             ELSE <<"str", x \o y>>

\* Number::toString of a finite number: its canonical decimal text.
NumberToString(v) ==
    IF Tag(v) = "nan" THEN Lit("NaN") ELSE <<"str", << <<"dec", v[2], v[3]>> >> >>

\* String(v): ToString of any JSON-shaped value.  Array.prototype.join writes
\* null and undefined elements as the empty string.
RECURSIVE ToStr(_)
RECURSIVE JoinElems(_, _)
JoinElems(elems, i) ==
    IF i > Len(elems) THEN EmptyString
    ELSE LET e == elems[i]
             s == IF IsNullish(e) THEN EmptyString ELSE ToStr(e)
         IN  IF i = Len(elems) THEN s
             ELSE Concat(Concat(s, Lit(",")), JoinElems(elems, i + 1))
ToStr(v) ==
    CASE Tag(v) = "undef" -> Lit("undefined")
      [] Tag(v) = "null" -> Lit("null")
      [] Tag(v) = "bool" -> IF v[2] THEN Lit("true") ELSE Lit("false")
      [] Tag(v) \in {"num", "nan"} -> NumberToString(v)
      [] Tag(v) = "str" -> v
      [] Tag(v) = "arr" -> JoinElems(v[2], 1)
      [] OTHER -> Lit("[object Object]")

\* StringToNumber: the empty text is 0, a canonical numeral is its number and
\* any other text of the model (none is a numeral) is NaN.
StringToNumber(s) ==
    IF s[2] = <<>> THEN IntNum(0)
    ELSE IF Len(s[2]) = 1 /\ s[2][1][1] = "dec" THEN Num(s[2][1][2], s[2][1][3])
    ELSE NaN

\* Number(v): ToNumber.
ToNumber(v) ==
    CASE Tag(v) = "undef" -> NaN
      [] Tag(v) = "null" -> IntNum(0)
      [] Tag(v) = "bool" -> IF v[2] THEN IntNum(1) ELSE IntNum(0)
      [] Tag(v) \in {"num", "nan"} -> v
      [] Tag(v) = "str" -> StringToNumber(v)
      [] Tag(v) = "arr" -> StringToNumber(ToStr(v))
      [] OTHER -> NaN

\* Number.parseFloat of a text the model can hold: a canonical numeral parses
\* to its number (Number::toString round-trips), anything else to NaN.
ParseFloat(s) ==
    IF Len(s[2]) >= 1 /\ s[2][1][1] = "dec" THEN Num(s[2][1][2], s[2][1][3])
    ELSE NaN

\* a < b on finite numbers.
NumLess(a, b) == a[2] * b[3] < b[2] * a[3]

\* Math.max(a, b) and Math.min(a, b): NaN if either argument is NaN.
MathMax(a, b) ==
    IF Tag(a) = "nan" \/ Tag(b) = "nan" THEN NaN
    ELSE IF NumLess(a, b) THEN b ELSE a
MathMin(a, b) ==
    IF Tag(a) = "nan" \/ Tag(b) = "nan" THEN NaN
    ELSE IF NumLess(b, a) THEN b ELSE a

\* a / b on finite numbers with b # 0.
NumDiv(a, b) == Num(a[2] * b[3], a[3] * b[2])

\* a * b on finite numbers.
NumMul(a, b) == Num(a[2] * b[2], a[3] * b[3])

\* obj[key] where obj is neither null nor undefined: a member of an object (the
\* last one of that name, as JSON.parse keeps it), undefined for a missing
\* member and for a number, string, boolean or array (none of the names the
\* components read is an own or inherited data property of those).
RECURSIVE Lookup(_, _, _)
Lookup(members, key, i) ==
    IF i = 0 THEN Undef
    ELSE IF members[i][1] = key THEN members[i][2]
    ELSE Lookup(members, key, i - 1)
GetProp(v, key) ==
    IF Tag(v) = "obj" THEN Lookup(v[2], Lit(key), Len(v[2])) ELSE Undef

\* v?.key
OptProp(v, key) == IF IsNullish(v) THEN Undef ELSE GetProp(v, key)

(***************************************************************************)
(* The props attribute and JSON.parse.  The text of an attribute is a      *)
(* sequence of lexemes: punctuation, a number, a string, a literal name,   *)
(* white space, or a run of characters that is no JSON lexeme.             *)
(***************************************************************************)
LBrace == <<"p", "{">>
RBrace == <<"p", "}">>
LBracket == <<"p", "[">>
RBracket == <<"p", "]">>
Colon == <<"p", ":">>
Comma == <<"p", ",">>
TNum(n, d) == <<"n", n, d>>
\* A string lexeme holds the string it denotes: Lit("abc"), or the numeral
\* NumberToString(IntNum(75)) for the lexeme "75".
TStr(s) == <<"s", s>>
TNull == <<"l", "null">>
TTrue == <<"l", "true">>
TFalse == <<"l", "false">>
TSpace == <<"w">>
TJunk == <<"x">>

Absent == [present |-> FALSE, text |-> <<>>]
Text(t) == [present |-> TRUE, text |-> t]

ParseFail == [ok |-> FALSE, val |-> Undef, rest |-> <<>>]
ParseOk(v, rest) == [ok |-> TRUE, val |-> v, rest |-> rest]

RECURSIVE ParseValue(_)
RECURSIVE ParseElements(_, _)
RECURSIVE ParseMembers(_, _)
ParseValue(ts) ==
    IF ts = <<>> THEN ParseFail
    ELSE LET t == Head(ts)
         IN  CASE t[1] = "n" -> ParseOk(Num(t[2], t[3]), Tail(ts))
               [] t[1] = "s" -> ParseOk(t[2], Tail(ts))
               [] t[1] = "l" ->
                    ParseOk(IF t[2] = "null" THEN Null ELSE Bool(t[2] = "true"), Tail(ts))
               [] t = LBracket ->
                    IF Len(ts) >= 2 /\ ts[2] = RBracket
                    THEN ParseOk(Arr(<<>>), Tail(Tail(ts)))
                    ELSE ParseElements(Tail(ts), <<>>)
               [] t = LBrace ->
                    IF Len(ts) >= 2 /\ ts[2] = RBrace
                    THEN ParseOk(Obj(<<>>), Tail(Tail(ts)))
                    ELSE ParseMembers(Tail(ts), <<>>)
               [] OTHER -> ParseFail
\* After an element r of an array: a comma and the next element, or the end.
AfterElement(r, acc) ==
    IF ~r.ok \/ r.rest = <<>> THEN ParseFail
    ELSE IF Head(r.rest) = Comma
         THEN ParseElements(Tail(r.rest), Append(acc, r.val))
    ELSE IF Head(r.rest) = RBracket
         THEN ParseOk(Arr(Append(acc, r.val)), Tail(r.rest))
    ELSE ParseFail
ParseElements(ts, acc) == AfterElement(ParseValue(ts), acc)
\* After the value r of the member named key: a comma and the next member, or
\* the end.
AfterMember(key, r, acc) ==
    IF ~r.ok \/ r.rest = <<>> THEN ParseFail
    ELSE IF Head(r.rest) = Comma
         THEN ParseMembers(Tail(r.rest), Append(acc, <<key, r.val>>))
    ELSE IF Head(r.rest) = RBrace
         THEN ParseOk(Obj(Append(acc, <<key, r.val>>)), Tail(r.rest))
    ELSE ParseFail
ParseMembers(ts, acc) ==
    IF Len(ts) < 2 \/ ts[1][1] # "s" \/ ts[2] # Colon THEN ParseFail
    ELSE AfterMember(ts[1][2], ParseValue(Tail(Tail(ts))), acc)

NotSpace(t) == t # TSpace

\* JSON.parse(text): the value, or ok = FALSE for the SyntaxError it throws.
\* White space may stand between lexemes; the whole text must be one value.
WholeText(r) == IF r.ok /\ r.rest = <<>> THEN r ELSE ParseFail
JSONParse(ts) == WholeText(ParseValue(SelectSeq(ts, NotSpace)))

\* A parseProps that lets the SyntaxError of JSON.parse escape.
ParsePropsNoCatch(value) ==
    IF ~value.present \/ value.text = <<>> THEN [val |-> EmptyBag, raised |-> "none"]
    ELSE IF JSONParse(value.text).ok
         THEN [val |-> JSONParse(value.text).val, raised |-> "none"]
    ELSE [val |-> Undef, raised |-> "SyntaxError"]

\* parseProps(value): what it returns and the exception it ends with.
\* try { return JSON.parse(value) } catch { return {} }
TryParse(r) ==
    IF r.ok THEN [val |-> r.val, raised |-> "none"]
    ELSE [val |-> EmptyBag, raised |-> "none"]
ParseProps(value) ==
    IF ~value.present \/ value.text = <<>> THEN [val |-> EmptyBag, raised |-> "none"]
    ELSE TryParse(JSONParse(value.text))

(***************************************************************************)
(* The theme resolver.  The computed value of a custom property is a       *)
(* sequence of chunks of text, " " being a run of white space.             *)
(***************************************************************************)
Roots == {"r1", "r2"}
Scopes == Roots \cup {"document"}
VarNames == {"--background", "--card", "--foreground", "--muted-foreground",
             "--primary", "--recess"}

BRAND_COLORS == [notBlack |-> "#0f1117", notWhite |-> "#e8eaf0",
                 muted |-> "#9aa4b2", accent |-> "#7aa2f7"]

RECURSIVE TrimStart(_)
TrimStart(cs) == IF cs # <<>> /\ Head(cs) = " " THEN TrimStart(Tail(cs)) ELSE cs
RECURSIVE TrimEnd(_)
TrimEnd(cs) ==
    IF cs # <<>> /\ cs[Len(cs)] = " " THEN TrimEnd(SubSeq(cs, 1, Len(cs) - 1)) ELSE cs
\* String.prototype.trim
Trim(cs) == TrimEnd(TrimStart(cs))

RECURSIVE JoinChunks(_)
JoinChunks(cs) == IF cs = <<>> THEN "" ELSE Head(cs) \o JoinChunks(Tail(cs))

\* getComputedStyle(el).getPropertyValue(name): empty for an element that is
\* not in the document.
GetPropertyValue(scope, name, env) ==
    IF scope \in Roots /\ ~env.inDoc[scope] THEN <<>> ELSE env.css[scope][name]

\* A readCssVar that does not trim.
ReadCssVarNoTrim(scope, name, env) ==
    LET value == Lit(JoinChunks(GetPropertyValue(scope, name, env)))
    IN  OrElse(value, Null)

\* readCssVar(el, name)
ReadCssVar(scope, name, env) ==
    LET value == Lit(JoinChunks(Trim(GetPropertyValue(scope, name, env))))
    IN  OrElse(value, Null)

\* format(value, fallback) of resolveTheme
Format(value, fallback) ==
    IF Truthy(value) THEN Concat(Concat(Lit("hsl("), value), Lit(")")) ELSE Lit(fallback)

\* resolveTheme(root): root is "null" or a presentation root.
ResolveTheme(root, env) ==
    LET scope == IF root = "null" THEN "document" ELSE root
    IN  [background |-> Format(ReadCssVar(scope, "--background", env), BRAND_COLORS.notBlack),
         surface |-> Format(ReadCssVar(scope, "--card", env), "#111827"),
         text |-> Format(ReadCssVar(scope, "--foreground", env), BRAND_COLORS.notWhite),
         muted |-> Format(ReadCssVar(scope, "--muted-foreground", env), BRAND_COLORS.muted),
         accent |-> Format(ReadCssVar(scope, "--primary", env), BRAND_COLORS.accent),
         recess |-> Format(ReadCssVar(scope, "--recess", env), "#0b1220")]

\* The document as the theme resolver reads it.
Env == [inDoc |-> rootInDoc, css |-> cssVars]

\* el.closest("vml, videoml, video-ml") for an element whose parent is p: the
\* root it is under, in the document or not, or "null".
Closest(p) == IF p \in Roots THEN p ELSE "null"

\* getRootTheme(el)
GetRootTheme(p, env) == ResolveTheme(Closest(p), env)

(***************************************************************************)
(* DOM nodes.  A node keeps its tag, its own text, its child nodes and the *)
(* style and dataset entries that depend on the props or on the theme (the *)
(* constant layout styles are left out).                                   *)
(***************************************************************************)
El(tag, text, kids, st) == [tag |-> tag, text |-> text, kids |-> kids, st |-> st]

\* The entry of a node's style/dataset list named n, or undefined.
RECURSIVE StyleAt(_, _, _)
StyleAt(st, n, i) ==
    IF i > Len(st) THEN Undef
    ELSE IF st[i][1] = n THEN st[i][2] ELSE StyleAt(st, n, i + 1)
StyleOf(node, n) == StyleAt(node.st, n, 1)

\* clear(el): remove the first child until there is none.
RECURSIVE Clear(_)
Clear(ch) == IF ch # <<>> THEN Clear(Tail(ch)) ELSE ch

\* makeText(text, style)
MakeText(text) == El("div", text, <<>>, <<>>)

\* makeCard(padding): the new node has no ancestor, so closest finds no root
\* and the card takes the document's theme.
CardOf(t) ==
    El("div", EmptyString, <<>>, << <<"background", t.surface>>, <<"color", t.text>> >>)
MakeCard(env) == CardOf(ResolveTheme("null", env))

AppendChild(node, kid) == [node EXCEPT !.kids = Append(@, kid)]

\* if (props[key]) parent.appendChild(makeText(String(props[key]), ...))
TextIf(props, key) ==
    IF Truthy(GetProp(props, key)) THEN <<MakeText(ToStr(GetProp(props, key)))>> ELSE <<>>

\* The eyebrow / title / subtitle block shared by the screens.
HeaderNodes(props) ==
    TextIf(props, "eyebrow") \o TextIf(props, "title") \o TextIf(props, "subtitle")

\* What a render step leaves: the element's children, barNodes, and the
\* exception it ended with.
Rendered(ch, bn) == [children |-> ch, barNodes |-> bn, raised |-> "none"]
Thrown(ch, bn) == [children |-> ch, barNodes |-> bn, raised |-> "TypeError"]

\* The characters of a literal chunk, for the chunks the model iterates.
CharsOfLit(t) == IF t = "ab" THEN <<"a", "b">> ELSE <<t>>

RECURSIVE StringIterator(_)
StringIterator(atoms) ==
    IF atoms = <<>> THEN <<>>
    ELSE LET a == Head(atoms)
             cs == IF a[1] = "lit" THEN CharsOfLit(a[2]) ELSE <<>>
         IN  (IF a[1] = "lit" THEN [i \in 1..Len(cs) |-> Lit(cs[i])]
              ELSE << <<"str", <<a>>>> >>)
             \o StringIterator(Tail(atoms))

\* for (const x of v): arrays and strings are iterable, nothing else that
\* JSON.parse returns is.
IsIterable(v) == Tag(v) \in {"arr", "str"}
Iterate(v) == IF Tag(v) = "arr" THEN v[2] ELSE StringIterator(v[2])

\* The wrap of the title screen under theme t.
TitleSlideWrap(props, t) ==
    El("div", EmptyString, HeaderNodes(props),
       << <<"color", Coalesce(GetProp(props, "color"), t.text)>> >>)

\* TitleSlideElement.render: props are decoded, the children cleared, the
\* theme resolved; reading props.color of null throws.
RenderTitleSlide(props, ch, bn, p, env) ==
    IF IsNullish(props) THEN Thrown(Clear(ch), bn)
    ELSE Rendered(Append(Clear(ch), TitleSlideWrap(props, GetRootTheme(p, env))), bn)

\* props?.bullets?.items without its default
BulletItemsNoDefault(props) == OptProp(OptProp(props, "bullets"), "items")

\* props?.bullets?.items ?? []
BulletItems(props) == Coalesce(OptProp(OptProp(props, "bullets"), "items"), Arr(<<>>))

\* The <ul> with one <li> per item.
ListOf(its) ==
    El("ul", EmptyString, [i \in 1..Len(its) |-> El("li", ToStr(its[i]), <<>>, <<>>)], <<>>)

BulletListWrap(props, t) ==
    El("div", EmptyString, Append(HeaderNodes(props), ListOf(Iterate(BulletItems(props)))),
       << <<"color", Coalesce(GetProp(props, "color"), t.text)>> >>)

\* BulletListElement.render: iterating items that are not iterable throws.
RenderBulletList(props, ch, bn, p, env) ==
    IF IsNullish(props) THEN Thrown(Clear(ch), bn)
    ELSE IF ~IsIterable(BulletItems(props)) THEN Thrown(Clear(ch), bn)
    ELSE Rendered(Append(Clear(ch), BulletListWrap(props, GetRootTheme(p, env))), bn)

DefaultValues == <<IntNum(38), IntNum(52), IntNum(24), IntNum(71), IntNum(43), IntNum(66)>>

\* Array.isArray(props.values) ? props.values : [38, 52, 24, 71, 43, 66]
BarValues(props) ==
    IF Tag(GetProp(props, "values")) = "arr" THEN GetProp(props, "values")[2]
    ELSE DefaultValues

\* Array.isArray(props.labels) ? props.labels : []
BarLabels(props) ==
    IF Tag(GetProp(props, "labels")) = "arr" THEN GetProp(props, "labels")[2] ELSE <<>>

\* Number(v) || 0
NumberOrZero(v) == OrElse(ToNumber(v), IntNum(0))

RECURSIVE MaxWith(_, _)
MaxWith(vals, m) ==
    IF vals = <<>> THEN m ELSE MaxWith(Tail(vals), MathMax(NumberOrZero(Head(vals)), m))

\* Math.max(...values.map((v) => Number(v) || 0), 1)
BarsMax(vals) == MaxWith(vals, IntNum(1))

\* Math.max(0.1, x)
AtLeastTenth(x) == MathMax(Num(1, 10), x)

ScaleY(x) == Concat(Concat(Lit("scaleY("), NumberToString(x)), Lit(")"))

\* A base that keeps the raw value, undivided.
BarBaseUnscaled(v, max) == NumberOrZero(v)

\* (Number(raw) || 0) / max
BarBase(v, max) == NumDiv(NumberOrZero(v), max)

\* The bar object of values[idx] (idx counted from 0) as barNodes holds it:
\* the render g that built it, dataset.base and style.transform.
BarOf(base, idx, g) ==
    [gen |-> g, idx |-> idx, base |-> NumberToString(base),
     transform |-> ScaleY(AtLeastTenth(base))]
MakeBar(v, idx, max, g) == BarOf(BarBase(v, max), idx, g)

\* The bar as a node of the tree: what render sets and no tick changes.
BarNode(base, accent) ==
    El("div", EmptyString, <<>>,
       << <<"base", NumberToString(base)>>,
          <<"height", Concat(NumberToString(NumMul(AtLeastTenth(base), IntNum(100))), Lit("%"))>>,
          <<"background", accent>> >>)

\* String(labels[idx] ?? "")
LabelText(labels, idx) ==
    ToStr(Coalesce(IF idx + 1 <= Len(labels) THEN labels[idx + 1] ELSE Undef, EmptyString))

\* The column of one value: the bar and, if its text is not empty, the label.
ColOf(bar, text) ==
    El("div", EmptyString,
       IF Truthy(text) THEN <<bar, El("div", text, <<>>, <<>>)>> ELSE <<bar>>, <<>>)
MakeCol(v, idx, max, labels, accent) ==
    ColOf(BarNode(BarBase(v, max), accent), LabelText(labels, idx))

Chart(values, max, labels, accent) ==
    El("div", EmptyString,
       [i \in 1..Len(values) |-> MakeCol(values[i], i - 1, max, labels, accent)], <<>>)

MotionBarsWrap(props, t) ==
    El("div", EmptyString,
       Append(HeaderNodes(props),
              Chart(BarValues(props), BarsMax(BarValues(props)), BarLabels(props),
                    Coalesce(GetProp(props, "accent"), t.accent))),
       << <<"color", Coalesce(GetProp(props, "color"), t.text)>> >>)

\* this.barNodes after the forEach of render number g.
BarsOf(values, max, g) == [i \in 1..Len(values) |-> MakeBar(values[i], i - 1, max, g)]

\* MotionBarsElement.render; g names the bars it builds.  An exception leaves
\* barNodes as it was.
RenderMotionBars(props, ch, bn, p, env, g) ==
    IF IsNullish(props) THEN Thrown(Clear(ch), bn)
    ELSE Rendered(Append(Clear(ch), MotionBarsWrap(props, GetRootTheme(p, env))),
                  BarsOf(BarValues(props), BarsMax(BarValues(props)), g))

\* Assigning style.width: a declaration that is no length or percentage (as
\* "NaN%") is dropped, and the property keeps its initial empty value.
StyleWidth(pct) ==
    IF Tag(pct) = "nan" THEN EmptyString ELSE Concat(NumberToString(pct), Lit("%"))

\* Math.max(0, Math.min(100, Number(v)))
ClampPercent(v) == MathMax(IntNum(0), MathMin(IntNum(100), ToNumber(v)))

\* props.label ?? props.title ?? "Progress"
ProgressLabel(props) ==
    Coalesce(Coalesce(GetProp(props, "label"), GetProp(props, "title")), Lit("Progress"))

\* props.progress ?? props.percent ?? 50
ProgressInput(props) ==
    Coalesce(Coalesce(GetProp(props, "progress"), GetProp(props, "percent")), IntNum(50))

ProgressWrap(props, t) ==
    El("div", EmptyString,
       <<MakeText(ToStr(ProgressLabel(props))),
         El("div", EmptyString,
            <<El("div", EmptyString, <<>>,
                 << <<"width", StyleWidth(ClampPercent(ProgressInput(props)))>>,
                    <<"background", t.accent>> >>)>>,
            << <<"background", t.surface>> >>)>>,
       << <<"color", t.text>> >>)

\* ProgressBarElement.render
RenderProgressBar(props, ch, bn, p, env) ==
    IF IsNullish(props) THEN Thrown(Clear(ch), bn)
    ELSE Rendered(Append(Clear(ch), ProgressWrap(props, GetRootTheme(p, env))), bn)

\* item?.[keys[1]] ?? item?.[keys[2]] ?? dflt
ItemTitle(item, keys, dflt) ==
    Coalesce(IF Len(keys) > 1
             THEN Coalesce(OptProp(item, keys[1]), OptProp(item, keys[2]))
             ELSE OptProp(item, keys[1]),
             Lit(dflt))

\* The card of one item of the card grid (dflt "Item", keys title then label)
\* or of one column of the three-column layout (dflt "Column", key title).
ItemCard(item, keys, dflt, env) ==
    [MakeCard(env) EXCEPT !.kids =
        <<MakeText(ToStr(ItemTitle(item, keys, dflt)))>>
        \o (IF Truthy(OptProp(item, "text"))
            THEN <<MakeText(ToStr(OptProp(item, "text")))>> ELSE <<>>)]

Cards(its, keys, dflt, env) == [i \in 1..Len(its) |-> ItemCard(its[i], keys, dflt, env)]

\* props.items ?? []
GridItems(props) == Coalesce(GetProp(props, "items"), Arr(<<>>))

GridHeader(props) ==
    IF Truthy(GetProp(props, "title"))
    THEN <<El("div", EmptyString, <<MakeText(ToStr(GetProp(props, "title")))>>, <<>>)>>
    ELSE <<>>

GridWrap(props, t, env) ==
    El("div", EmptyString,
       GridHeader(props) \o Cards(Iterate(GridItems(props)), <<"title", "label">>, "Item", env),
       << <<"color", t.text>> >>)

\* GridScreenElement.render
RenderGridScreen(props, ch, bn, p, env) ==
    IF IsNullish(props) THEN Thrown(Clear(ch), bn)
    ELSE IF ~IsIterable(GridItems(props)) THEN Thrown(Clear(ch), bn)
    ELSE Rendered(Append(Clear(ch), GridWrap(props, GetRootTheme(p, env), env)), bn)

\* props.columns ?? []
Columns(props) == Coalesce(GetProp(props, "columns"), Arr(<<>>))

ThreeColumnWrap(props, t, env) ==
    El("div", EmptyString, Cards(Iterate(Columns(props)), <<"title">>, "Column", env),
       << <<"color", t.text>> >>)

\* ThreeColumnElement.render
RenderThreeColumn(props, ch, bn, p, env) ==
    IF IsNullish(props) THEN Thrown(Clear(ch), bn)
    ELSE IF ~IsIterable(Columns(props)) THEN Thrown(Clear(ch), bn)
    ELSE Rendered(Append(Clear(ch), ThreeColumnWrap(props, GetRootTheme(p, env), env)), bn)

Kinds == {"title-slide", "bullet-list", "motion-bars", "progress-bar", "grid-screen",
          "three-column-screen"}

\* The render step of class k on the decoded props.
RenderKind(k, props, ch, bn, p, env, g) ==
    CASE k = "title-slide" -> RenderTitleSlide(props, ch, bn, p, env)
      [] k = "bullet-list" -> RenderBulletList(props, ch, bn, p, env)
      [] k = "motion-bars" -> RenderMotionBars(props, ch, bn, p, env, g)
      [] k = "progress-bar" -> RenderProgressBar(props, ch, bn, p, env)
      [] k = "grid-screen" -> RenderGridScreen(props, ch, bn, p, env)
      [] k = "three-column-screen" -> RenderThreeColumn(props, ch, bn, p, env)

\* this.render() of an element of class k whose props attribute is a, whose
\* children are ch and whose parent is p.
Render(k, a, ch, bn, p, env, g) == RenderKind(k, ParseProps(a).val, ch, bn, p, env, g)

(***************************************************************************)
(* The life cycle of one element.  An element state e holds the fields the *)
(* callbacks read and write; the callbacks are functions on it.            *)
(***************************************************************************)
MaxRenders == 3
MaxBinds == 2
MaxTime == 1

NoRun == [attr |-> Absent, theme |-> <<>>, first |-> <<>>, n |-> 0]

Cur == [children |-> children, barNodes |-> barNodes, tickHandler |-> tickHandler,
        listeners |-> listeners, raised |-> raised, gen |-> gen,
        nextHandler |-> nextHandler, renderRun |-> renderRun]

\* this.render(), with the history of the run of equal renders kept.
\* The run of consecutive renders with the same attribute and theme: its
\* length and what the first of them left.
NextRun(run, a, t, out) ==
    IF run.n > 0 /\ run.attr = a /\ run.theme = t THEN [run EXCEPT !.n = @ + 1]
    ELSE [attr |-> a, theme |-> t, first |-> out, n |-> 1]

AfterRender(e, a, t, r) ==
    [e EXCEPT !.children = r.children,
              !.barNodes = r.barNodes,
              !.raised = r.raised,
              !.gen = @ + 1,
              !.renderRun = NextRun(@, a, t, r.children)]

DoRender(e, k, a, p, env) ==
    AfterRender(e, a, GetRootTheme(p, env),
                Render(k, a, e.children, e.barNodes, p, env, e.gen + 1))

\* removeEventListener: the listener is dropped if it is registered.
RemoveListener(ls, h) == SelectSeq(ls, LAMBDA x : x # h)

\* addEventListener: a listener already registered is not added again.
AddListener(ls, h) == IF \E i \in 1..Len(ls) : ls[i] = h THEN ls ELSE Append(ls, h)

\* MotionBarsElement.bindTimeline, for an element whose parent is p.
BindTimeline(e, p) ==
    LET root == Closest(p)
        h == e.nextHandler + 1
        l1 == IF e.tickHandler # 0 THEN RemoveListener(e.listeners[root], e.tickHandler)
              ELSE e.listeners[root]
    IN  IF root = "null" THEN e
        ELSE [e EXCEPT !.tickHandler = h, !.nextHandler = h,
                       !.listeners[root] = AddListener(l1, h)]

\* connectedCallback: an exception of render ends the callback.
BindIfRendered(e1, k, p) ==
    IF k = "motion-bars" /\ e1.raised = "none" THEN BindTimeline(e1, p) ELSE e1
ConnectedCallback(e, k, a, p, env) == BindIfRendered(DoRender(e, k, a, p, env), k, p)

\* disconnectedCallback, run when the element's parent is already p; only
\* MotionBarsElement defines one.
DisconnectedCallback(e, k, p) ==
    LET root == Closest(p)
    IN  IF k = "motion-bars" /\ root # "null" /\ e.tickHandler # 0
        THEN [e EXCEPT !.listeners[root] = RemoveListener(@, e.tickHandler),
                       !.raised = "none"]
        ELSE [e EXCEPT !.raised = "none"]

\* An attributeChangedCallback that binds the timeline again after render.
AttributeChangedRebinds(e, k, a, p, env) == ConnectedCallback(e, k, a, p, env)

\* attributeChangedCallback
AttributeChangedCallback(e, k, a, p, env) == DoRender(e, k, a, p, env)

\* sin(x) in thousandths, for the whole numbers x the ticks of the model reach.
SinMilli == <<0, 841, 909, 141, -757, -959, -279, 657, 989, 412, -544, -1000, -537, 420>>

\* 0.7 + 0.3 * Math.sin(time * 2 + idx)
TickScale(time, idx) == Num(700000 + 300 * SinMilli[time[2] * 2 + idx + 1], 1000000)

\* A tick handler body that writes the scaled value back as the bar's base.
TickBarRebased(bar, time) ==
    [bar EXCEPT !.transform = ScaleY(AtLeastTenth(TickScale(time, bar.idx))),
                !.base = NumberToString(TickScale(time, bar.idx))]

\* The body of the tick handler: every bar's transform is recomputed from its
\* stored base and the time of the event.
TickBar(bar, time) ==
    [bar EXCEPT !.transform =
        ScaleY(AtLeastTenth(NumMul(ParseFloat(Coalesce(bar.base, Lit("1"))),
                                   TickScale(time, bar.idx))))]
TickHandler(e, detail) ==
    [e EXCEPT !.barNodes =
        [i \in 1..Len(e.barNodes) |->
            TickBar(e.barNodes[i], Coalesce(OptProp(detail, "time"), IntNum(0)))]]

\* root.dispatchEvent(new CustomEvent("timeline:tick", {detail})): the
\* listeners of the root run in registration order.  Every listener of the
\* model is a tick handler of the one element.
RECURSIVE RunListeners(_, _, _)
RunListeners(e, ls, detail) ==
    IF ls = <<>> THEN e ELSE RunListeners(TickHandler(e, detail), Tail(ls), detail)
DispatchTick(e, root, detail) == RunListeners(e, e.listeners[root], detail)

IsConnected(p, inDoc) == p = "doc" \/ (p \in Roots /\ inDoc[p])

Store(e) ==
    /\ children' = e.children
    /\ barNodes' = e.barNodes
    /\ tickHandler' = e.tickHandler
    /\ listeners' = e.listeners
    /\ raised' = e.raised
    /\ gen' = e.gen
    /\ nextHandler' = e.nextHandler
    /\ renderRun' = e.renderRun

Others == <<parseVars, themeVars, regVars, pc>>

\* parent.appendChild(el) for an element that is in no tree.
InsertElement(target) ==
    /\ parent = "none"
    /\ gen < MaxRenders /\ nextHandler < MaxBinds
    /\ parent' = target
    /\ lastOp' = "insert"
    /\ Store(IF IsConnected(target, rootInDoc)
             THEN ConnectedCallback(Cur, kind, attr, target, Env) ELSE Cur)
    /\ UNCHANGED <<kind, attr, rootInDoc, cssVars, Others>>

\* el.remove(): the callback runs when the element has no parent any more.
RemoveElement ==
    /\ parent # "none"
    /\ parent' = "none"
    /\ lastOp' = "remove"
    /\ Store(IF IsConnected(parent, rootInDoc)
             THEN DisconnectedCallback(Cur, kind, "none") ELSE Cur)
    /\ UNCHANGED <<kind, attr, rootInDoc, cssVars, Others>>

Reconnected(e1, target) ==
    IF IsConnected(target, rootInDoc) THEN ConnectedCallback(e1, kind, attr, target, Env)
    ELSE e1

\* target.appendChild(el) for an element that is in a tree: it is removed and
\* inserted, and both callbacks run once it is at its new place.
MoveElement(target) ==
    /\ parent # "none"
    /\ gen < MaxRenders /\ nextHandler < MaxBinds
    /\ parent' = target
    /\ lastOp' = "move"
    /\ Store(Reconnected(IF IsConnected(parent, rootInDoc)
                         THEN DisconnectedCallback(Cur, kind, target) ELSE Cur, target))
    /\ UNCHANGED <<kind, attr, rootInDoc, cssVars, Others>>

\* root.remove(): the element under it leaves the document with it.
RemoveRoot(r) ==
    /\ rootInDoc[r]
    /\ rootInDoc' = [rootInDoc EXCEPT ![r] = FALSE]
    /\ lastOp' = "removeRoot"
    /\ Store(IF parent = r THEN DisconnectedCallback(Cur, kind, parent) ELSE Cur)
    /\ UNCHANGED <<kind, attr, parent, cssVars, Others>>

\* document.body.appendChild(root)
InsertRoot(r) ==
    /\ ~rootInDoc[r]
    /\ gen < MaxRenders /\ nextHandler < MaxBinds
    /\ rootInDoc' = [rootInDoc EXCEPT ![r] = TRUE]
    /\ lastOp' = "insertRoot"
    /\ Store(IF parent = r
             THEN ConnectedCallback(Cur, kind, attr, parent,
                                    [inDoc |-> rootInDoc', css |-> cssVars])
             ELSE Cur)
    /\ UNCHANGED <<kind, attr, parent, cssVars, Others>>

\* el.setAttribute("props", text) or el.removeAttribute("props"): the
\* callback runs whether or not the element is in the document.
SetProps(a) ==
    /\ gen < MaxRenders
    /\ a.present \/ attr.present
    /\ attr' = a
    /\ lastOp' = "setProps"
    /\ Store(AttributeChangedCallback(Cur, kind, a, parent, Env))
    /\ UNCHANGED <<kind, parent, rootInDoc, cssVars, Others>>

\* The host dispatches timeline:tick on a root.
Tick(r, detail) ==
    /\ lastOp' = "tick"
    /\ Store(DispatchTick(Cur, r, detail))
    /\ UNCHANGED <<kind, attr, parent, rootInDoc, cssVars, Others>>

(***************************************************************************)
(* The custom element registry.  An element's tagName is a sequence of     *)
(* chunks of upper-case text, "-" being a hyphen.                          *)
(***************************************************************************)
MaxScanLen == 3

\* The tag names of the elements a scanned subtree can hold.
TagNames == {<<"DIV">>, <<"VML">>, <<"MOTION", "-", "BARS">>, <<"X", "-", "FOO">>,
             <<"Y", "-", "BAR">>, <<"FONT", "-", "FACE">>}

LowerChunk(c) ==
    CASE c = "DIV" -> "div" [] c = "VML" -> "vml" [] c = "MOTION" -> "motion"
      [] c = "BARS" -> "bars" [] c = "X" -> "x" [] c = "FOO" -> "foo" [] c = "Y" -> "y"
      [] c = "BAR" -> "bar" [] c = "FONT" -> "font" [] c = "FACE" -> "face"
      [] c = "NOT" -> "not" [] c = "VIDEO" -> "video" [] c = "THREE" -> "three"
      [] c = "ORBIT" -> "orbit"
      [] OTHER -> c

\* el.tagName.toLowerCase()
ToLowerCase(tn) == JoinChunks([i \in 1..Len(tn) |-> LowerChunk(tn[i])])

\* tag.includes("-")
IncludesHyphen(tn) == \E i \in 1..Len(tn) : tn[i] = "-"

\* The definitions of registerVideoMLComponents in order: the tag, the class,
\* and whether defineAlias makes a new subclass of it for the tag.
Definitions == <<
    <<"title-slide", "TitleSlideElement", FALSE>>,
    <<"title-slide-layout-demo", "TitleSlideElement", TRUE>>,
    <<"bullet-list-screen", "BulletListElement", TRUE>>,
    <<"bullet-list", "BulletListElement", TRUE>>,
    <<"two-column-screen", "TwoColumnElement", TRUE>>,
    <<"two-column-layout-demo", "TwoColumnElement", TRUE>>,
    <<"chapter-heading", "ChapterHeadingElement", FALSE>>,
    <<"content-screen", "ContentScreenElement", FALSE>>,
    <<"grid-screen", "GridScreenElement", FALSE>>,
    <<"three-column-screen", "ThreeColumnElement", FALSE>>,
    <<"video-title", "VideoTitleElement", FALSE>>,
    <<"video-subtitle", "VideoSubtitleElement", FALSE>>,
    <<"video-rectangle", "VideoRectangleElement", FALSE>>,
    <<"video-background", "BackgroundElement", FALSE>>,
    <<"motion-bars", "MotionBarsElement", FALSE>>,
    <<"progress-bar", "ProgressBarElement", FALSE>>,
    <<"quote-card", "QuoteCardElement", FALSE>>,
    <<"lower-third", "LowerThirdElement", FALSE>>,
    <<"video-callout", "CalloutElement", FALSE>>,
    <<"video-chyron", "ChyronElement", FALSE>>,
    <<"code-block", "CodeBlockElement", FALSE>>,
    <<"anime-harness-demo", "DemoPlaceholderElement", TRUE>>,
    <<"d3-bar-chart", "DemoPlaceholderElement", TRUE>>,
    <<"framer-motion-demo", "DemoPlaceholderElement", TRUE>>,
    <<"lottie-badge", "DemoPlaceholderElement", TRUE>>,
    <<"mix-and-match-demo", "DemoPlaceholderElement", TRUE>>,
    <<"p5-particles", "DemoPlaceholderElement", TRUE>>,
    <<"p5-neon-field", "DemoPlaceholderElement", TRUE>>,
    <<"text-effects-demo", "DemoPlaceholderElement", TRUE>>,
    <<"three-orbit", "DemoPlaceholderElement", TRUE>>,
    <<"content-layout-demo", "DemoPlaceholderElement", TRUE>>,
    <<"not-video", "DemoPlaceholderElement", TRUE>> >>

\* Every name the registry of the model can hold.
RegistryNames ==
    {Definitions[i][1] : i \in 1..Len(Definitions)} \cup {ToLowerCase(tn) : tn \in TagNames}

\* A registered implementation: the constructor (a class, or the subclass
\* defineAlias made for one tag) and the class whose behaviour it has.
NoImpl == [ctor |-> "none", base |-> "none"]
ClassImpl(c) == [ctor |-> c, base |-> c]
AliasImpl(name, c) == [ctor |-> "AliasElement for " \o name, base |-> c]

\* The names the HTML standard reserves, which are no valid custom element names.
ReservedNames == {"annotation-xml", "color-profile", "font-face", "font-face-src",
                  "font-face-uri", "font-face-format", "font-face-name", "missing-glyph"}

\* A registry state: the table, the successful define calls per name, and
\* the exception the operation ended with.
RegState(reg, cnt, exc) == [registry |-> reg, defineCount |-> cnt, raised |-> exc]

\* customElements.define(name, impl.ctor) on a name that holds a hyphen: it
\* throws for a reserved name, for a name already defined and for a
\* constructor already defined under another name.
CustomElementsDefine(st, name, impl) ==
    IF name \in ReservedNames THEN [st EXCEPT !.raised = "SyntaxError"]
    ELSE IF st.registry[name] # NoImpl
            \/ \E n \in RegistryNames : st.registry[n].ctor = impl.ctor
         THEN [st EXCEPT !.raised = "NotSupportedError"]
    ELSE [st EXCEPT !.registry[name] = impl, !.defineCount[name] = @ + 1]

\* if (!customElements.get(name)) customElements.define(name, ctor)
DefineIfAbsent(st, name, impl) ==
    IF st.registry[name] = NoImpl THEN CustomElementsDefine(st, name, impl) ELSE st

\* registerVideoMLComponents: the definitions in order; an exception ends it.
RECURSIVE DefineAll(_, _)
DefineAll(st, i) ==
    IF i > Len(Definitions) \/ st.raised # "none" THEN st
    ELSE LET d == Definitions[i]
             impl == IF d[3] THEN AliasImpl(d[1], d[2]) ELSE ClassImpl(d[2])
         IN  DefineAll(DefineIfAbsent(st, d[1], impl), i + 1)
RegisterVideoMLComponents(st) == DefineAll([st EXCEPT !.raised = "none"], 1)

\* The Set of lower-cased hyphenated tag names of the elements, in the order
\* of their first occurrence.
RECURSIVE CollectTags(_, _)
CollectTags(elems, acc) ==
    IF elems = <<>> THEN acc
    ELSE LET tag == ToLowerCase(Head(elems))
         IN  CollectTags(Tail(elems),
                         IF ~IncludesHyphen(Head(elems)) \/ \E i \in 1..Len(acc) : acc[i] = tag
                         THEN acc ELSE Append(acc, tag))

RECURSIVE DefineFallbacks(_, _)
DefineFallbacks(st, tags) ==
    IF tags = <<>> \/ st.raised # "none" THEN st
    ELSE DefineFallbacks(DefineIfAbsent(st, Head(tags), ClassImpl("FallbackElement")),
                         Tail(tags))

\* registerFallbackComponents(root): elems are the tag names of root and of
\* its descendants in document order.
RegisterFallbackComponents(st, elems) ==
    DefineFallbacks([st EXCEPT !.raised = "none"], CollectTags(elems, <<>>))

CurReg == RegState(registry, defineCount, raised)

StoreReg(st) ==
    /\ registry' = st.registry
    /\ defineCount' = st.defineCount
    /\ raised' = st.raised

elRest == <<kind, attr, children, barNodes, tickHandler, parent, rootInDoc, listeners,
            cssVars, gen, nextHandler, renderRun>>

\* The application calls registerVideoMLComponents().
CallRegisterComponents ==
    /\ StoreReg(RegisterVideoMLComponents(CurReg))
    /\ lastOp' = "registerComponents"
    /\ UNCHANGED <<elRest, lastScan, parseVars, themeVars, pc>>

\* The application calls registerFallbackComponents(root).
CallRegisterFallback(elems) ==
    /\ StoreReg(RegisterFallbackComponents(CurReg, elems))
    /\ lastScan' = elems
    /\ lastOp' = "registerFallback"
    /\ UNCHANGED <<elRest, parseVars, themeVars, pc>>

(***************************************************************************)
(* Inputs.                                                                 *)
(***************************************************************************)
RECURSIVE Joined(_)
Joined(parts) ==
    IF parts = <<>> THEN <<>>
    ELSE IF Len(parts) = 1 THEN parts[1]
    ELSE parts[1] \o <<Comma>> \o Joined(Tail(parts))

\* The lexemes of [e1, e2, ...] and of {"k1": v1, ...}.
ArrText(elems) == <<LBracket>> \o Joined(elems) \o <<RBracket>>
Member(k, vt) == <<TStr(Lit(k)), Colon>> \o vt
ObjText(members) == <<LBrace>> \o Joined(members) \o <<RBrace>>
N(n) == <<TNum(n, 1)>>
S(t) == <<TStr(Lit(t))>>

NoCss == [s \in Scopes |-> [n \in VarNames |-> <<>>]]
SomeCss ==
    [s \in Scopes |->
        IF s = "r1"
        THEN [n \in VarNames |->
                CASE n = "--foreground" -> <<" ", "210 40% 98%">>
                  [] n = "--primary" -> <<"217 91% 60%">>
                  [] n = "--card" -> <<" ">>
                  [] OTHER -> <<>>]
        ELSE IF s = "document"
        THEN [n \in VarNames |-> IF n = "--card" THEN <<"222 47% 11%">> ELSE <<>>]
        ELSE [n \in VarNames |-> <<>>]]

NoTheme == [background |-> EmptyString, surface |-> EmptyString, text |-> EmptyString,
            muted |-> EmptyString, accent |-> EmptyString, recess |-> EmptyString]

\* The props attributes the timeline specification sets.
TimelineAttrs ==
    {Absent,
     Text(ObjText(<<Member("values", ArrText(<<N(2), N(4)>>))>>)),
     Text(ObjText(<<Member("values", ArrText(<<N(3)>>))>>)),
     Text(<<TNull>>)}

\* The props attributes the render specification sets: absent, empty,
\* malformed, and well-formed values of every JSON type.
RenderAttrs ==
    {Absent, Text(<<>>), Text(<<LBrace>>), Text(<<TJunk>>), Text(<<TSpace>>),
     Text(<<TNull>>), Text(N(5)), Text(S("ab")), Text(<<TTrue>>),
     Text(ArrText(<<>>)), Text(ObjText(<<>>)),
     Text(ObjText(<<Member("title", S("Hi")), Member("subtitle", N(5)),
                    Member("color", S("red"))>>)),
     Text(ObjText(<<Member("bullets", ObjText(<<Member("items", ArrText(<<S("a"), N(2)>>))>>))>>)),
     Text(ObjText(<<Member("bullets", ObjText(<<Member("items", N(5))>>))>>)),
     Text(ObjText(<<Member("bullets", ObjText(<<Member("items", S("ab"))>>))>>)),
     Text(ObjText(<<Member("bullets", N(1))>>)),
     Text(ObjText(<<Member("values", ArrText(<<N(38), N(52), N(24), N(71), N(43), N(66)>>))>>)),
     Text(ObjText(<<Member("values", ArrText(<<N(2), N(4)>>)),
                    Member("labels", ArrText(<<S("x")>>))>>)),
     Text(ObjText(<<Member("values", ArrText(<<N(0), N(0)>>))>>)),
     Text(ObjText(<<Member("values", ArrText(<<<<TNum(1, 2)>>, <<TNum(1, 4)>>>>))>>)),
     Text(ObjText(<<Member("values", ArrText(<<>>))>>)),
     Text(ObjText(<<Member("values", N(7))>>)),
     Text(ObjText(<<Member("progress", N(-10))>>)),
     Text(ObjText(<<Member("progress", N(50))>>)),
     Text(ObjText(<<Member("progress", N(150))>>)),
     Text(ObjText(<<Member("progress", <<TNum(1, 2)>>)>>)),
     Text(ObjText(<<Member("progress", S("abc"))>>)),
     Text(ObjText(<<Member("progress", <<TStr(NumberToString(IntNum(75)))>>)>>)),
     Text(ObjText(<<Member("progress", <<TNull>>), Member("percent", N(30))>>)),
     Text(ObjText(<<Member("percent", N(120))>>)),
     Text(ObjText(<<Member("progress", ObjText(<<>>))>>)),
     Text(ObjText(<<Member("items", ArrText(<<ObjText(<<Member("title", S("A")),
                                                        Member("text", S("t"))>>),
                                              <<TNull>>>>)),
                    Member("title", S("Grid"))>>)),
     Text(ObjText(<<Member("items", N(5))>>)),
     Text(ObjText(<<Member("columns", ArrText(<<ObjText(<<Member("title", S("C"))>>)>>))>>)),
     Text(ObjText(<<Member("columns", <<TTrue>>)>>))}

\* A child the author put in the element before it was first attached.
AuthorNode == El("span", Lit("author text"), <<>>, <<>>)

\* The detail of a tick event: absent, or {time: t}.
Details == {Undef} \cup {Obj(<< <<Lit("time"), IntNum(t)>> >>) : t \in 0..MaxTime}

MaxRawLen == 4
ParseAlphabet == {LBrace, RBrace, LBracket, RBracket, Colon, Comma, TNum(1, 1),
                  TStr(Lit("a")), TNull, TJunk, TSpace}
RawInputs ==
    {Absent} \cup {Text(t) : t \in UNION {[1..n -> ParseAlphabet] : n \in 0..MaxRawLen}}

\* The computed values a design token can have: absent, blank, a triple, and
\* a triple with white space around it.
TokenValues == {<<>>, <<" ">>, <<"210 40% 98%">>, <<" ", "222 47% 11%", " ">>}

ScanInputs == UNION {[1..n -> TagNames] : n \in 1..MaxScanLen}

(***************************************************************************)
(* Specifications.                                                         *)
(***************************************************************************)
ElInit(k) ==
    /\ kind = k
    /\ attr = Absent
    /\ barNodes = <<>>
    /\ tickHandler = 0
    /\ parent = "none"
    /\ rootInDoc = [r \in Roots |-> TRUE]
    /\ listeners = [r \in Roots |-> <<>>]
    /\ raised = "none"
    /\ gen = 0
    /\ nextHandler = 0
    /\ lastOp = "init"
    /\ renderRun = NoRun

ParseIdle == raw = Absent /\ decoded = Undef
ThemeIdle == themeScope = "null" /\ theme = NoTheme
RegInit ==
    /\ registry = [n \in RegistryNames |-> NoImpl]
    /\ defineCount = [n \in RegistryNames |-> 0]
    /\ lastScan = <<>>

\* ---- one <motion-bars> element among two presentation roots
Init ==
    /\ ElInit("motion-bars")
    /\ children = <<>>
    /\ cssVars = SomeCss
    /\ ParseIdle /\ ThemeIdle /\ RegInit
    /\ pc = "run"

Next ==
    \/ \E target \in Roots \cup {"doc"} : InsertElement(target)
    \/ RemoveElement
    \/ \E target \in Roots \cup {"doc"} : MoveElement(target)
    \/ \E r \in Roots : RemoveRoot(r)
    \/ \E r \in Roots : InsertRoot(r)
    \/ \E a \in TimelineAttrs : SetProps(a)
    \/ \E r \in Roots, d \in Details : Tick(r, d)

Spec == Init /\ [][Next]_vars

\* ---- one element of any class, attached, re-rendered and detached
InitRender ==
    /\ \E k \in Kinds : ElInit(k)
    /\ children \in {<<>>, <<AuthorNode>>}
    /\ cssVars \in {NoCss, SomeCss}
    /\ ParseIdle /\ ThemeIdle /\ RegInit
    /\ pc = "run"

NextRender ==
    \/ \E target \in {"doc", "r1"} : InsertElement(target)
    \/ RemoveElement
    \/ \E a \in RenderAttrs : SetProps(a)

SpecRender == InitRender /\ [][NextRender]_vars

\* ---- parseProps applied to one input
InitParse ==
    /\ ElInit("title-slide")
    /\ children = <<>>
    /\ cssVars = NoCss
    /\ raw \in RawInputs
    /\ decoded = Undef
    /\ ThemeIdle /\ RegInit
    /\ pc = "call"

CallParseProps ==
    /\ pc = "call"
    /\ decoded' = ParseProps(raw).val
    /\ raised' = ParseProps(raw).raised
    /\ pc' = "return"
    /\ lastOp' = "parseProps"
    /\ UNCHANGED <<elRest, raw, themeVars, regVars>>

NextParse == CallParseProps

SpecParse == InitParse /\ [][NextParse]_vars

\* ---- resolveTheme applied to one scope
InitTheme ==
    /\ ElInit("title-slide")
    /\ children = <<>>
    /\ \E f \in [VarNames -> TokenValues], g \in {[n \in VarNames |-> <<>>],
                                                   [n \in VarNames |-> <<"0 0% 50%">>]} :
          cssVars = [s \in Scopes |-> IF s = "document" THEN f
                                      ELSE IF s = "r1" THEN g ELSE f]
    /\ themeScope \in {"null", "r1", "r2"}
    /\ theme = NoTheme
    /\ ParseIdle /\ RegInit
    /\ pc = "call"

CallResolveTheme ==
    /\ pc = "call"
    /\ theme' = ResolveTheme(themeScope, Env)
    /\ raised' = "none"
    /\ pc' = "return"
    /\ lastOp' = "resolveTheme"
    /\ UNCHANGED <<elRest, themeScope, parseVars, regVars>>

NextTheme == CallResolveTheme

SpecTheme == InitTheme /\ [][NextTheme]_vars

\* ---- the registry under calls of the two registration functions
InitRegistry ==
    /\ ElInit("title-slide")
    /\ children = <<>>
    /\ cssVars = NoCss
    /\ ParseIdle /\ ThemeIdle /\ RegInit
    /\ pc = "run"

NextRegistry ==
    \/ CallRegisterComponents
    \/ \E elems \in ScanInputs : CallRegisterFallback(elems)

SpecRegistry == InitRegistry /\ [][NextRegistry]_vars

(***************************************************************************)
(* The demo placeholder and the fallback.  In this specification kind is   *)
(* the element's tagName; the tag is registered, to DemoPlaceholderElement *)
(* (through defineAlias) or to FallbackElement.                            *)
(***************************************************************************)
LabelTags == {<<"NOT", "-", "VIDEO">>, <<"THREE", "-", "ORBIT">>,
              <<"X", "-", "FOO">>, <<"Y", "-", "BAR">>}

\* Whether registerVideoMLComponents defines the tag as a demo placeholder.
IsPlaceholder(tn) ==
    \E i \in 1..Len(Definitions) :
        Definitions[i][1] = ToLowerCase(tn) /\ Definitions[i][2] = "DemoPlaceholderElement"

\* `<${this.tagName.toLowerCase()}>`
AngleTag(tn) == Lit("<" \o ToLowerCase(tn) \o ">")

\* The card DemoPlaceholderElement.connectedCallback builds.
PlaceholderCard(tn, env) ==
    AppendChild(AppendChild(MakeCard(env), MakeText(Concat(Lit("Demo: "), AngleTag(tn)))),
                MakeText(Lit("This demo component is a placeholder in the DOM runtime.")))

\* The label FallbackElement.connectedCallback builds.
FallbackLabel(tn) == El("div", AngleTag(tn), <<>>, <<>>)

\* connectedCallback of both classes: if (this.childNodes.length) return;
LabelConnected(e, tn, env) ==
    IF Len(e.children) # 0 THEN [e EXCEPT !.raised = "none"]
    ELSE [e EXCEPT !.raised = "none",
                   !.children = <<IF IsPlaceholder(tn) THEN PlaceholderCard(tn, env)
                                  ELSE FallbackLabel(tn)>>]

\* parent.appendChild(el) for an element that is in no tree.
AttachLabel(target) ==
    /\ parent = "none"
    /\ parent' = target
    /\ lastOp' = "attach"
    /\ Store(LabelConnected(Cur, kind, Env))
    /\ UNCHANGED <<kind, attr, rootInDoc, cssVars, Others>>

\* el.remove(): neither class has a disconnectedCallback.
DetachLabel ==
    /\ parent # "none"
    /\ parent' = "none"
    /\ lastOp' = "detach"
    /\ Store([Cur EXCEPT !.raised = "none"])
    /\ UNCHANGED <<kind, attr, rootInDoc, cssVars, Others>>

\* target.appendChild(el) for an element that is in a tree: connectedCallback
\* runs again at the new place.
ReattachLabel(target) ==
    /\ parent \notin {"none", target}
    /\ parent' = target
    /\ lastOp' = "reattach"
    /\ Store(LabelConnected(Cur, kind, Env))
    /\ UNCHANGED <<kind, attr, rootInDoc, cssVars, Others>>

\* A text node of white space between the element's tags.
WhiteSpaceNode == El("#text", Lit(" "), <<>>, <<>>)

InitLabel ==
    /\ \E tn \in LabelTags : ElInit(tn)
    /\ children \in {<<>>, <<AuthorNode>>, <<WhiteSpaceNode>>}
    /\ cssVars \in {NoCss, SomeCss}
    /\ ParseIdle /\ ThemeIdle /\ RegInit
    /\ pc = "run"

NextLabel ==
    \/ \E target \in {"doc", "r1", "r2"} : AttachLabel(target)
    \/ DetachLabel
    \/ \E target \in {"doc", "r1", "r2"} : ReattachLabel(target)

SpecLabel == InitLabel /\ [][NextLabel]_vars

(***************************************************************************)
(* Properties of the timeline subscription (specification Spec).           *)
(***************************************************************************)
Detached == kind = "motion-bars" /\ parent = "none"
ListenerCount ==
    Cardinality({x \in Roots \X (1..MaxBinds) : x[2] <= Len(listeners[x[1]])})

\* C1: once a motion-bars element that was attached under a presentation
\* root is removed from the tree, no root holds a tick listener of it, and a
\* tick dispatched while it is removed changes no bar's transform.
C1_NoListenerAfterRemoval ==
    /\ [](Detached => \A r \in Roots : listeners[r] = <<>>)
    /\ [][(Detached /\ lastOp' = "tick") => barNodes' = barNodes]_vars

\* C2: in every reachable state the motion-bars element has at most one tick
\* listener registered, counted over all presentation roots.
C2_AtMostOneListener == kind = "motion-bars" => ListenerCount <= 1

(***************************************************************************)
(* Properties of render (specification SpecRender).                        *)
(***************************************************************************)
HasRendered == renderRun.n >= 1 /\ renderRun.attr = attr
\* The last operation was a render, and it ended without an exception.
RenderDone == HasRendered /\ lastOp \in {"insert", "setProps"} /\ raised = "none"

\* C3: render is total: for every component and every props attribute,
\* render ends without an exception and leaves a rendered subtree (a wrapper
\* built by render) in the element.
C3_RenderTotal ==
    (HasRendered /\ lastOp \in {"insert", "setProps"}) =>
        /\ raised = "none"
        /\ children # <<>>
        /\ \A i \in 1..Len(children) : children[i] # AuthorNode

\* C7: after n >= 1 consecutive renders with the same props attribute and
\* the same theme, the subtree is what the first of them left, with exactly
\* one top-level child and no node of an earlier render.
C7_RerenderIdempotent ==
    HasRendered => (children = renderRun.first /\ Len(children) = 1)

\* The values prop of the last render and the numbers the claims about the
\* bar chart compare with.
GivenValues == GetProp(ParseProps(attr).val, "values")
IsNonNegSeq(v) ==
    /\ Tag(v) = "arr"
    /\ v[2] # <<>>
    /\ \A i \in 1..Len(v[2]) : Tag(v[2][i]) = "num" /\ v[2][i][2] >= 0
SeqMaximum(s) ==
    CHOOSE m \in {s[i] : i \in 1..Len(s)} : \A i \in 1..Len(s) : ~NumLess(m, s[i])
Quotient(a, b) == IF b[2] = 0 THEN NaN ELSE Num(a[2] * b[3], a[3] * b[2])
AtLeastOne(m) == IF NumLess(m, IntNum(1)) THEN IntNum(1) ELSE m
StoredBase(i) == ParseFloat(barNodes[i].base)
BarsRendered == kind = "motion-bars" /\ RenderDone
DefaultBases ==
    /\ Len(barNodes) = 6
    /\ StoredBase(1) = Num(38, 71) /\ StoredBase(2) = Num(52, 71)
    /\ StoredBase(3) = Num(24, 71) /\ StoredBase(4) = IntNum(1)
    /\ StoredBase(5) = Num(43, 71) /\ StoredBase(6) = Num(66, 71)

\* C9 as stated: for a non-empty sequence of non-negative numbers every
\* bar's stored base is value / M, M the maximum of the sequence, so the
\* tallest bar's base is 1; the default sequence gives 1 for 71 and
\* value / 71 for the others.
C9_BaseIsValueOverMax ==
    BarsRendered =>
        /\ IsNonNegSeq(GivenValues) =>
              /\ Len(barNodes) = Len(GivenValues[2])
              /\ \A i \in 1..Len(barNodes) :
                    StoredBase(i) = Quotient(GivenValues[2][i], SeqMaximum(GivenValues[2]))
              /\ \E i \in 1..Len(barNodes) : StoredBase(i) = IntNum(1)
        /\ Tag(GivenValues) # "arr" => DefaultBases

\* C9 amended: every bar's stored base is value / max(M, 1), so the tallest
\* bar's base is 1 exactly when M >= 1; the default sequence gives 1 for 71
\* and value / 71 for the others.
C9_BaseIsValueOverMaxOrOne ==
    BarsRendered =>
        /\ IsNonNegSeq(GivenValues) =>
              /\ Len(barNodes) = Len(GivenValues[2])
              /\ \A i \in 1..Len(barNodes) :
                    StoredBase(i) = Quotient(GivenValues[2][i],
                                             AtLeastOne(SeqMaximum(GivenValues[2])))
              /\ (\E i \in 1..Len(barNodes) : StoredBase(i) = IntNum(1))
                    <=> ~NumLess(SeqMaximum(GivenValues[2]), IntNum(1))
        /\ Tag(GivenValues) # "arr" => DefaultBases

\* Bars rendered from a sequence whose maximum is below 1.
C9_Witness ==
    /\ BarsRendered
    /\ IsNonNegSeq(GivenValues)
    /\ GivenValues[2] = <<Num(1, 2), Num(1, 4)>>
    /\ StoredBase(1) = Num(1, 2)
    /\ StoredBase(2) = Num(1, 4)

\* The fill of a rendered progress bar and its width as a percentage.
FillWidth == StyleOf(children[1].kids[2].kids[1], "width")
IsPercentage(w) ==
    /\ Tag(w) = "str"
    /\ Len(w[2]) = 2
    /\ w[2][1][1] = "dec"
    /\ w[2][2] = <<"lit", "%">>
PercentOf(w) == Num(w[2][1][2], w[2][1][3])
Clamped(x) ==
    IF NumLess(x, IntNum(0)) THEN IntNum(0)
    ELSE IF NumLess(IntNum(100), x) THEN IntNum(100) ELSE x
GivenProgress ==
    LET props == ParseProps(attr).val
    IN  IF ~IsNullish(GetProp(props, "progress")) THEN GetProp(props, "progress")
        ELSE IF ~IsNullish(GetProp(props, "percent")) THEN GetProp(props, "percent")
        ELSE IntNum(50)

\* C10: for every value of the progress (or percent) prop the fill's width
\* is a percentage p with 0 <= p <= 100, and for a number it is the number
\* clamped to [0, 100].
C10_FillWithinRange ==
    (kind = "progress-bar" /\ RenderDone) =>
        /\ IsPercentage(FillWidth)
        /\ ~NumLess(PercentOf(FillWidth), IntNum(0))
        /\ ~NumLess(IntNum(100), PercentOf(FillWidth))
        /\ Tag(GivenProgress) = "num" => PercentOf(FillWidth) = Clamped(GivenProgress)

(***************************************************************************)
(* Properties of parseProps (specification SpecParse).                     *)
(***************************************************************************)
\* The JSON grammar on lexemes, stated by splitting the text: a value is a
\* scalar, or brackets around nothing or elements, or braces around nothing
\* or members; elements and members are separated by commas.
RECURSIVE IsValueText(_)
RECURSIVE IsElementsText(_)
RECURSIVE IsMembersText(_)
IsValueText(ts) ==
    \/ Len(ts) = 1 /\ ts[1][1] \in {"n", "s", "l"}
    \/ /\ Len(ts) >= 2
       /\ ts[1] = <<"p", "[">> /\ ts[Len(ts)] = <<"p", "]">>
       /\ Len(ts) = 2 \/ IsElementsText(SubSeq(ts, 2, Len(ts) - 1))
    \/ /\ Len(ts) >= 2
       /\ ts[1] = <<"p", "{">> /\ ts[Len(ts)] = <<"p", "}">>
       /\ Len(ts) = 2 \/ IsMembersText(SubSeq(ts, 2, Len(ts) - 1))
IsElementsText(ts) ==
    \/ IsValueText(ts)
    \/ \E i \in 2..(Len(ts) - 1) :
          /\ ts[i] = <<"p", ",">>
          /\ IsValueText(SubSeq(ts, 1, i - 1))
          /\ IsElementsText(SubSeq(ts, i + 1, Len(ts)))
IsMemberText(ts) ==
    /\ Len(ts) >= 3
    /\ ts[1][1] = "s"
    /\ ts[2] = <<"p", ":">>
    /\ IsValueText(SubSeq(ts, 3, Len(ts)))
IsMembersText(ts) ==
    \/ IsMemberText(ts)
    \/ \E i \in 4..(Len(ts) - 1) :
          /\ ts[i] = <<"p", ",">>
          /\ IsMemberText(SubSeq(ts, 1, i - 1))
          /\ IsMembersText(SubSeq(ts, i + 1, Len(ts)))
IsJsonText(ts) == IsValueText(SelectSeq(ts, LAMBDA t : t # <<"w">>))
Returned == pc = "return" /\ lastOp = "parseProps"
NoUsableText == ~raw.present \/ raw.text = <<>> \/ ~IsJsonText(raw.text)

\* C4: for every absent, empty or syntactically malformed props string,
\* parseProps returns the empty bag {} and raises nothing.
C4_MalformedDecodesEmpty ==
    (Returned /\ NoUsableText) => (decoded = EmptyBag /\ raised = "none")

\* parseProps has returned from the text of an object that is never closed.
C4_Witness ==
    /\ Returned
    /\ raw.present
    /\ Len(raw.text) >= 2
    /\ raw.text[1] = <<"p", "{">>
    /\ raw.text[2][1] = "s"
    /\ ~IsJsonText(raw.text)
    /\ decoded = EmptyBag

(***************************************************************************)
(* Properties of resolveTheme (specification SpecTheme).                   *)
(***************************************************************************)
SlotToken == [background |-> "--background", surface |-> "--card",
              text |-> "--foreground", muted |-> "--muted-foreground",
              accent |-> "--primary", recess |-> "--recess"]
SlotDefault == [background |-> "#0f1117", surface |-> "#111827", text |-> "#e8eaf0",
                muted |-> "#9aa4b2", accent |-> "#7aa2f7", recess |-> "#0b1220"]
Slots == DOMAIN SlotToken
\* The computed value of a slot's token on the scope resolveTheme was given,
\* the document for a null scope, and its text without the white space
\* around it.
TokenOf(slot) ==
    cssVars[IF themeScope = "null" THEN "document" ELSE themeScope][SlotToken[slot]]
NonBlank(cs) == SelectSeq(cs, LAMBDA c : c # " ")
Resolved == pc = "return" /\ lastOp = "resolveTheme"

\* C8: resolveTheme raises nothing and returns a theme with the six slots,
\* each populated: hsl(v) for a token whose trimmed text v is not empty, the
\* slot's own default for an absent or blank token; the six defaults are
\* pairwise distinct.
C8_ThemeFullyPopulated ==
    Resolved =>
        /\ raised = "none"
        /\ DOMAIN theme = Slots
        /\ Cardinality({SlotDefault[s] : s \in Slots}) = Cardinality(Slots)
        /\ \A s \in Slots :
              /\ Truthy(theme[s])
              /\ IF NonBlank(TokenOf(s)) = <<>> THEN theme[s] = Lit(SlotDefault[s])
                 ELSE theme[s] = Lit("hsl(" \o NonBlank(TokenOf(s))[1] \o ")")

\* resolveTheme has returned for a null scope with one token set with white
\* space around it, one blank and one absent.
C8_Witness ==
    /\ Resolved
    /\ themeScope = "null"
    /\ TokenOf("text") = <<" ", "222 47% 11%", " ">>
    /\ TokenOf("surface") = <<" ">>
    /\ TokenOf("accent") = <<>>
    /\ theme.text = Lit("hsl(222 47% 11%)")
    /\ theme.surface = Lit("#111827")

(***************************************************************************)
(* Properties of the registry (specification SpecRegistry).                *)
(***************************************************************************)
\* The hyphenated tag names of a scanned subtree, lower-cased.
HyphenTags(elems) ==
    {ToLowerCase(elems[i]) : i \in {j \in 1..Len(elems) : IncludesHyphen(elems[j])}}

\* C5: when registerFallbackComponents(root) returns it has raised nothing,
\* every hyphenated tag name of the subtree has a registered implementation,
\* and each one that had none before the call is bound to the fallback.
C5_ScanRegistersEveryTag ==
    [][lastOp' = "registerFallback" =>
          /\ raised' = "none"
          /\ \A t \in HyphenTags(lastScan') :
                /\ registry'[t] # NoImpl
                /\ registry[t] = NoImpl => registry'[t] = ClassImpl("FallbackElement")]_vars

\* C6: over any sequence of the two registration calls a registered tag
\* keeps its implementation, a registration that finds all its tags
\* registered changes nothing and raises nothing, and after a fallback scan
\* each tag of the subtree has been registered exactly once.
C6_RegistrationIdempotent ==
    [][/\ \A n \in RegistryNames : registry[n] # NoImpl => registry'[n] = registry[n]
       /\ (/\ lastOp' = "registerComponents"
           /\ \A i \in 1..Len(Definitions) : registry[Definitions[i][1]] # NoImpl)
             => (raised' = "none" /\ registry' = registry)
       /\ (/\ lastOp' = "registerFallback"
           /\ \A t \in HyphenTags(lastScan') : registry[t] # NoImpl)
             => (raised' = "none" /\ registry' = registry)
       /\ lastOp' = "registerFallback"
             => \A t \in HyphenTags(lastScan') : defineCount'[t] = 1]_vars

(***************************************************************************)
(* Properties of the demo placeholder and the fallback (specification      *)
(* SpecLabel).                                                             *)
(***************************************************************************)
Attached == lastOp # "init"
\* The element holds one child, a label built by connectedCallback: for the
\* fallback a node whose text is <tag>, for the placeholder a card whose
\* first line is "Demo: <tag>".
OneLabel ==
    /\ Len(children) = 1
    /\ IF IsPlaceholder(kind)
       THEN /\ Len(children[1].kids) = 2
            /\ children[1].kids[1].text = Lit("Demo: <" \o ToLowerCase(kind) \o ">")
       ELSE /\ children[1].kids = <<>>
            /\ children[1].text = Lit("<" \o ToLowerCase(kind) \o ">")

\* C11: whatever children a demo placeholder or fallback had when first
\* attached, it holds exactly one label subtree after the first attach, and
\* every later attach leaves its children unchanged.
C11_LabelBuiltOnce ==
    /\ [](Attached => OneLabel)
    /\ [][(Attached /\ lastOp' \in {"attach", "reattach"}) => children' = children]_vars

(***************************************************************************)
(* Properties of re-renders and ticks of a motion-bars element             *)
(* (specification Spec).                                                   *)
(***************************************************************************)
\* C12: a re-render triggered by a change of the props attribute leaves the
\* subscription as it was: the listeners registered on every root and the
\* stored tick handler are the same before and after
\* attributeChangedCallback.
C12_RerenderKeepsSubscription ==
    [][lastOp' = "setProps" => (listeners' = listeners /\ tickHandler' = tickHandler)]_vars

\* The element has been re-rendered by a props change while attached under
\* a root that holds its one listener.
C12_Witness ==
    /\ lastOp = "setProps"
    /\ gen >= 2
    /\ parent \in Roots
    /\ rootInDoc[parent]
    /\ tickHandler # 0
    /\ listeners[parent] = <<tickHandler>>

\* A bar without its transform: what a tick must leave alone.
Untransformed(bar) == [gen |-> bar.gen, idx |-> bar.idx, base |-> bar.base]

\* C13: a tick changes only the transform of the bars the element owns: the
\* child nodes, the bar set, every bar's stored base, the props attribute,
\* the listeners, the element's place and the roots stay as they were, and
\* neither parseProps nor render runs.
C13_TickChangesTransformOnly ==
    [][lastOp' = "tick" =>
          /\ children' = children
          /\ attr' = attr
          /\ listeners' = listeners
          /\ tickHandler' = tickHandler
          /\ parent' = parent
          /\ rootInDoc' = rootInDoc
          /\ gen' = gen
          /\ renderRun' = renderRun
          /\ decoded' = decoded
          /\ Len(barNodes') = Len(barNodes)
          /\ \A i \in 1..Len(barNodes) :
                Untransformed(barNodes'[i]) = Untransformed(barNodes[i])]_vars

\* A tick has reached the subscribed element and rescaled a bar.
C13_Witness ==
    /\ lastOp = "tick"
    /\ parent \in Roots
    /\ listeners[parent] = <<tickHandler>>
    /\ barNodes # <<>>
    /\ \E i \in 1..Len(barNodes) :
          barNodes[i].transform # ScaleY(AtLeastTenth(ParseFloat(barNodes[i].base)))

\* The bars the most recent props give: one per value, with its base.
CurrentBars ==
    BarsOf(BarValues(ParseProps(attr).val), BarsMax(BarValues(ParseProps(attr).val)), gen)

\* C14: on an attached element, the bars a tick updates are the bars the
\* most recent render built, with the base proportions of the most recent
\* props: no tick updates a bar of an earlier render.
C14_TickUsesLatestBars ==
    [][(lastOp' = "tick" /\ parent \in Roots /\ barNodes' # barNodes) =>
          /\ \A i \in 1..Len(barNodes) : barNodes[i].gen = gen
          /\ Len(barNodes) = Len(CurrentBars)
          /\ \A i \in 1..Len(barNodes) : barNodes[i].base = CurrentBars[i].base]_vars

\* C15: attaching a motion-bars element with no presentation root above it
\* renders it, registers no listener and raises nothing; a later detach
\* changes no listener set and no state of the element.
C15_NoRootNoSubscription ==
    /\ [][(lastOp' \in {"insert", "move"} /\ parent' = "doc") =>
             /\ raised' = "none"
             /\ gen' = gen + 1
             /\ Len(children') = 1
             /\ listeners' = listeners]_vars
    /\ [][(lastOp' = "remove" /\ parent = "doc") =>
             /\ listeners' = listeners
             /\ tickHandler' = tickHandler
             /\ children' = children
             /\ barNodes' = barNodes
             /\ attr' = attr
             /\ gen' = gen]_vars

(***************************************************************************)
(* Absent sequence props (specification SpecRender).                       *)
(***************************************************************************)
SequenceKinds == {"bullet-list", "motion-bars", "grid-screen", "three-column-screen"}

\* The sequence prop a component builds its items from, as its render reads it.
SequenceProp(props) ==
    CASE kind = "bullet-list" -> OptProp(OptProp(props, "bullets"), "items")
      [] kind = "motion-bars" -> GetProp(props, "values")
      [] kind = "grid-screen" -> GetProp(props, "items")
      [] kind = "three-column-screen" -> GetProp(props, "columns")

\* The element has just been rendered from a props bag that holds no
\* sequence for it.
AbsentSequence ==
    /\ kind \in SequenceKinds
    /\ HasRendered
    /\ lastOp \in {"insert", "setProps"}
    /\ Tag(ParseProps(attr).val) = "obj"
    /\ SequenceProp(ParseProps(attr).val) = Undef

LastKid(node) == node.kids[Len(node.kids)]

\* The number of items in the rendered subtree: <li> of the list, columns
\* of the chart, cards of the grid (after its header) and of the layout.
ItemCount ==
    CASE kind = "bullet-list" -> Len(LastKid(children[1]).kids)
      [] kind = "motion-bars" -> Len(LastKid(children[1]).kids)
      [] kind = "grid-screen" ->
            Len(children[1].kids) - Len(GridHeader(ParseProps(attr).val))
      [] kind = "three-column-screen" -> Len(children[1].kids)

\* C16, as stated: every component that builds items from a sequence prop
\* renders zero items, without raising, when the sequence is absent.
C16_AbsentSequenceIsEmpty ==
    AbsentSequence => (raised = "none" /\ Len(children) = 1 /\ ItemCount = 0)

\* C16, amended: for an absent sequence no component raises; the bulleted
\* list, the card grid and the three-column layout render zero items, and
\* the bar chart renders one bar for each of its six default values.
C16_AbsentSequenceDefault ==
    AbsentSequence =>
        /\ raised = "none"
        /\ Len(children) = 1
        /\ ItemCount = IF kind = "motion-bars" THEN Len(DefaultValues) ELSE 0
        /\ kind = "motion-bars" => Len(barNodes) = Len(DefaultValues)

\* A bar chart rendered from a props object without values shows the six
\* default bars.
C16_Witness ==
    /\ AbsentSequence
    /\ kind = "motion-bars"
    /\ attr.present
    /\ raised = "none"
    /\ ItemCount = 6

====
